---- MODULE Spec2Model ----
(***************************************************************************)
(* maproxy: the per-connection Session engine (maproxy.py, class Session)  *)
(* and the ProxyServer session list, driven by the callbacks of the two    *)
(* tornado IOStreams of each session, and the IOManager that stops the     *)
(* servers and the event loop.                                             *)
(*                                                                         *)
(* A session is a record; every method of Session is an operator from a    *)
(* session record to the session record after the call.  Every callback    *)
(* the event loop can run is one action.  The streams are modelled by what *)
(* the session can observe of them: open/closed, the write in progress,    *)
(* the dial in progress, and whether the close callback has run.           *)
(***************************************************************************)
EXTENDS Naturals, Sequences, FiniteSets, TLC

VARIABLES sessions,      \* every Session object ever constructed, by id
          SessionsList,  \* ProxyServer.SessionsList: ids of the live sessions
          peers,         \* what the peers will still do: connections the clients
                         \* will open, chunks the clients and the upstreams will send,
                         \* and whether the upstream is an echo server
          mgr            \* the IOManager, the event loop and the clock

vars == <<sessions, SessionsList, peers, mgr>>

---------------------------------------------------------------------------
(* Bounds *)
MaxSessions     == 2   \* connections the listener accepts (SpecListener)
MaxClientChunks == 3   \* chunks the client sends (Spec)
MaxServerChunks == 4   \* chunks the upstream sends (Spec)
MaxTime         == 4   \* the clock stops at MaxTime seconds (SpecManager)
MaxGrace        == 2   \* longest timeout given to IOManager.stop (SpecManager)
MaxStops        == 2   \* calls of IOManager.stop (SpecManager)

---------------------------------------------------------------------------
(* Session.State and the close request queued as None *)
CLOSED     == "CLOSED"
CONNECTING == "CONNECTING"
CONNECTED  == "CONNECTED"

None == 0              \* chunks are the positive numbers, in order of arrival

---------------------------------------------------------------------------
(* tornado.iostream.IOStream, as far as the session uses it.               *)
(*  - write(data, callback) raises StreamClosedError on a closed stream;    *)
(*    otherwise the data is buffered, and once the socket has taken it the  *)
(*    callback is scheduled on the event loop.                              *)
(*  - A stream can close (peer, error, close()) while a callback of it is   *)
(*    scheduled: the callback still runs, and the close callback runs after *)
(*    every scheduled callback of the stream, once.  A write still buffered *)
(*    when the stream closes never gets its callback.                       *)
(*  - close() never raises and does nothing on a closed stream.             *)
(*  - An exception that leaves a callback of a stream closes that stream.   *)
(*  - read_until_close(callback, streaming_callback) registers the one read *)
(*    of the stream: every chunk that arrives goes to streaming_callback.   *)

\* a stream; dial is "connected" for the accepted stream, "dialing" for the
\* stream of p2s_stream.connect
IOStream_new(dial) ==
    [ open    |-> TRUE,       \* not closed
      wr      |-> "idle",     \* "idle" | "buffered" (write accepted, callback not
                              \* scheduled) | "callback" (write done, callback scheduled)
      dial    |-> dial,       \* "dialing" | "callback" | "connected" | "failed"
      fired   |-> FALSE,      \* the close callback has run
      rd      |-> FALSE,      \* read_until_close has registered the read callback
      tx      |-> << >>,      \* chunks accepted by write(), in order
      taken   |-> 0,          \* writes the socket has taken: the peer receives them
      overlap |-> FALSE,      \* write() was called while a write was outstanding
      closer  |-> "none" ]    \* who closed it: "peer" | "session" | "error"

\* stream.closed()
IOStream_closed(st) == ~st.open

\* stream.close(): idempotent; a buffered write loses its callback, a dial in
\* progress fails, callbacks already scheduled still run before the close callback
IOStream_close(st, who) ==
    IF ~st.open THEN st
    ELSE [st EXCEPT !.open   = FALSE,
                    !.wr     = IF @ = "buffered" THEN "idle" ELSE @,
                    !.dial   = IF @ = "dialing" THEN "failed" ELSE @,
                    !.closer = who]

\* stream.write(data, callback) on an open stream
IOStream_write(st, data) ==
    [st EXCEPT !.wr      = "buffered",
               !.tx      = Append(@, data),
               !.overlap = @ \/ (st.wr # "idle")]

\* stream.read_until_close(callback, streaming_callback) on an open stream
IOStream_read_until_close(st) == [st EXCEPT !.rd = TRUE]

\* the close callback may run: the stream is closed, the callback has not run,
\* and no callback of the stream is scheduled
IOStream_close_callback_ready(st) ==
    /\ ~st.open
    /\ ~st.fired
    /\ st.wr # "callback"
    /\ st.dial # "callback"

---------------------------------------------------------------------------
(* Assertions: a failed assert raises out of the callback *)
Raise(s, what) == [s EXCEPT !.exc = TRUE, !.failed = @ \cup {what}]

\* a chunk that is neither written nor queued
Drop(s, dst, data, state, open) ==
    IF data = None THEN s
    ELSE [s EXCEPT !.dropped = @ \cup
             {[dst |-> dst, chunk |-> data, state |-> state, open |-> open]}]

\* start_write on endpoint dst, CONNECTED with no write outstanding, finds
\* the queue q of the endpoint
Started(s, dst, q) ==
    IF q = << >> THEN s ELSE [s EXCEPT !.jumped = @ \cup {dst}]

---------------------------------------------------------------------------
(* Session *)

\* Session.remove_session: the call of proxy.remove_session(self)
remove_session(s) == [s EXCEPT !.rm = @ + 1]

\* mutant: the read is started without c2p_reading being set
c2p_start_read_no_flag(s) ==
    IF s.c2p_reading THEN Raise(s, "c2p_start_read")
    ELSE IF IOStream_closed(s.c2p_stream) THEN s
         ELSE [s EXCEPT !.c2p_stream = IOStream_read_until_close(@)]

c2p_start_read(s) ==
    IF s.c2p_reading THEN Raise(s, "c2p_start_read")
    ELSE LET s1 == [s EXCEPT !.late_io = @ \cup (IF s.c2p_state = CLOSED
                                                 THEN {"c2p_read"} ELSE {})]
         IN  IF IOStream_closed(s1.c2p_stream)
             THEN [s1 EXCEPT !.c2p_reading = FALSE]
             ELSE [s1 EXCEPT !.c2p_reading = TRUE,
                             !.c2p_stream = IOStream_read_until_close(@)]

p2s_start_read(s) ==
    IF s.p2s_reading THEN Raise(s, "p2s_start_read")
    ELSE LET s1 == [s EXCEPT !.late_io = @ \cup (IF s.p2s_state = CLOSED
                                                 THEN {"p2s_read"} ELSE {})]
         IN  IF IOStream_closed(s1.p2s_stream)
             THEN [s1 EXCEPT !.p2s_reading = FALSE]
             ELSE [s1 EXCEPT !.p2s_reading = TRUE,
                             !.p2s_stream = IOStream_read_until_close(@)]

c2p_io_write(s, data) ==
    IF data = None
    THEN [s EXCEPT !.c2p_state  = CLOSED,
                   !.c2p_stream = IOStream_close(@, "session"),
                   !.sentinels.c2p = @ + 1]
    ELSE LET s1 == [s EXCEPT !.c2p_writing = TRUE,
                             !.late_io = @ \cup (IF s.c2p_state = CLOSED
                                                 THEN {"c2p_write"} ELSE {})]
         IN  IF IOStream_closed(s1.c2p_stream)
             THEN Drop([s1 EXCEPT !.c2p_writing = FALSE,
                                  !.write_failed = @ \cup {"c2p"}],
                       "c2p", data, s.c2p_state, FALSE)
             ELSE [s1 EXCEPT !.c2p_stream = IOStream_write(@, data)]

\* mutant: the chunk is written without p2s_writing being set
p2s_io_write_no_flag(s, data) ==
    IF data = None
    THEN [s EXCEPT !.p2s_state  = CLOSED,
                   !.p2s_stream = IOStream_close(@, "session"),
                   !.sentinels.p2s = @ + 1]
    ELSE IF IOStream_closed(s.p2s_stream)
         THEN Drop([s EXCEPT !.write_failed = @ \cup {"p2s"}],
                   "p2s", data, s.p2s_state, FALSE)
         ELSE [s EXCEPT !.p2s_stream = IOStream_write(@, data)]

p2s_io_write(s, data) ==
    IF data = None
    THEN [s EXCEPT !.p2s_state  = CLOSED,
                   !.p2s_stream = IOStream_close(@, "session"),
                   !.sentinels.p2s = @ + 1]
    ELSE LET s1 == [s EXCEPT !.p2s_writing = TRUE,
                             !.late_io = @ \cup (IF s.p2s_state = CLOSED
                                                 THEN {"p2s_write"} ELSE {})]
         IN  IF IOStream_closed(s1.p2s_stream)
             THEN Drop([s1 EXCEPT !.p2s_writing = FALSE,
                                  !.write_failed = @ \cup {"p2s"}],
                       "p2s", data, s.p2s_state, FALSE)
             ELSE [s1 EXCEPT !.p2s_stream = IOStream_write(@, data)]

\* mutant: the write is started whether or not one is outstanding
c2p_start_write_no_flag(s, data) ==
    IF s.c2p_state # CONNECTED
    THEN Drop(s, "c2p", data, s.c2p_state, s.c2p_stream.open)
    ELSE c2p_io_write(s, data)

\* mutant: the state of the endpoint is not looked at
c2p_start_write_no_state(s, data) ==
    IF ~s.c2p_writing
    THEN IF s.s2c_queued_data # << >>
         THEN Drop(Raise(Started(s, "c2p", s.s2c_queued_data), "c2p_start_write"),
                   "c2p", data, s.c2p_state, s.c2p_stream.open)
         ELSE c2p_io_write(s, data)
    ELSE [s EXCEPT !.s2c_queued_data = Append(@, data)]

c2p_start_write(s, data) ==
    IF s.c2p_state # CONNECTED
    THEN Drop(s, "c2p", data, s.c2p_state, s.c2p_stream.open)
    ELSE IF ~s.c2p_writing
         THEN IF s.s2c_queued_data # << >>
              THEN Drop(Raise(Started(s, "c2p", s.s2c_queued_data),
                              "c2p_start_write"),
                        "c2p", data, s.c2p_state, s.c2p_stream.open)
              ELSE c2p_io_write(s, data)
         ELSE [s EXCEPT !.s2c_queued_data = Append(@, data)]

\* mutant: no test of the CONNECTING state, the item goes to the stream
p2s_start_write_no_connecting(s, data) ==
    IF s.p2s_state = CLOSED
    THEN Drop(s, "p2s", data, s.p2s_state, s.p2s_stream.open)
    ELSE IF ~s.p2s_writing
         THEN p2s_io_write(Started(s, "p2s", s.c2s_queued_data), data)
         ELSE [s EXCEPT !.c2s_queued_data = Append(@, data)]

\* mutant: insert(0, data) instead of append(data) during the dial
p2s_start_write_prepend(s, data) ==
    IF s.p2s_state = CONNECTING
    THEN [s EXCEPT !.c2s_queued_data = <<data>> \o @]
    ELSE IF s.p2s_state = CLOSED
         THEN Drop(s, "p2s", data, s.p2s_state, s.p2s_stream.open)
         ELSE IF ~s.p2s_writing
              THEN p2s_io_write(Started(s, "p2s", s.c2s_queued_data), data)
              ELSE [s EXCEPT !.c2s_queued_data = Append(@, data)]

\* mutant: nothing is queued behind an outstanding write
p2s_start_write_no_queue(s, data) ==
    IF s.p2s_state = CONNECTING
    THEN [s EXCEPT !.c2s_queued_data = Append(@, data)]
    ELSE IF s.p2s_state = CLOSED
         THEN Drop(s, "p2s", data, s.p2s_state, s.p2s_stream.open)
         ELSE IF ~s.p2s_writing
              THEN p2s_io_write(Started(s, "p2s", s.c2s_queued_data), data)
              ELSE s

p2s_start_write(s, data) ==
    IF s.p2s_state = CONNECTING
    THEN [s EXCEPT !.c2s_queued_data = Append(@, data)]
    ELSE IF s.p2s_state = CLOSED
         THEN Drop(s, "p2s", data, s.p2s_state, s.p2s_stream.open)
         ELSE IF ~s.p2s_writing
              THEN p2s_io_write(Started(s, "p2s", s.c2s_queued_data), data)
              ELSE [s EXCEPT !.c2s_queued_data = Append(@, data)]

on_c2p_done_read(s, data) ==
    IF ~s.c2p_reading \/ data = None THEN Raise(s, "on_c2p_done_read")
    ELSE p2s_start_write(s, data)

on_p2s_done_read(s, data) ==
    IF ~s.p2s_reading \/ data = None THEN Raise(s, "on_p2s_done_read")
    ELSE c2p_start_write(s, data)

on_c2p_done_write(s) ==
    IF ~s.c2p_writing THEN Raise(s, "on_c2p_done_write")
    ELSE IF s.s2c_queued_data # << >>
         THEN c2p_io_write([s EXCEPT !.s2c_queued_data = Tail(@)],
                           Head(s.s2c_queued_data))
         ELSE [s EXCEPT !.c2p_writing = FALSE]

\* mutant: pop() instead of pop(0)
on_p2s_done_write_pop_last(s) ==
    IF ~s.p2s_writing THEN Raise(s, "on_p2s_done_write")
    ELSE IF s.c2s_queued_data # << >>
         THEN p2s_io_write([s EXCEPT !.c2s_queued_data =
                                        SubSeq(@, 1, Len(@) - 1)],
                           s.c2s_queued_data[Len(s.c2s_queued_data)])
         ELSE [s EXCEPT !.p2s_writing = FALSE]

on_p2s_done_write(s) ==
    IF ~s.p2s_writing THEN Raise(s, "on_p2s_done_write")
    ELSE IF s.c2s_queued_data # << >>
         THEN p2s_io_write([s EXCEPT !.c2s_queued_data = Tail(@)],
                           Head(s.c2s_queued_data))
         ELSE [s EXCEPT !.p2s_writing = FALSE]

\* mutant: the graceful request closes at once, like the brutal one
c2p_start_close_brutal(s, gracefully) ==
    IF s.c2p_state = CLOSED THEN s
    ELSE LET s1 == [s EXCEPT !.c2p_state = CLOSED,
                             !.s2c_queued_data = << >>,
                             !.c2p_stream = IOStream_close(@, "session"),
                             !.ungraceful = @ \cup {"c2p"}]
         IN  IF s1.p2s_state = CLOSED THEN remove_session(s1) ELSE s1

c2p_start_close(s, gracefully) ==
    IF s.c2p_state = CLOSED THEN s
    ELSE IF gracefully THEN c2p_start_write(s, None)
    ELSE LET s1 == [s EXCEPT !.c2p_state = CLOSED,
                             !.s2c_queued_data = << >>,
                             !.c2p_stream = IOStream_close(@, "session"),
                             !.ungraceful = @ \cup {"c2p"}]
         IN  IF s1.p2s_state = CLOSED THEN remove_session(s1) ELSE s1

\* mutant: the state of the endpoint is not looked at first
p2s_start_close_no_check(s, gracefully) ==
    IF gracefully THEN p2s_start_write(s, None)
    ELSE LET s1 == [s EXCEPT !.p2s_state = CLOSED,
                             !.c2s_queued_data = << >>,
                             !.p2s_stream = IOStream_close(@, "session"),
                             !.ungraceful = @ \cup {"p2s"}]
         IN  IF s1.c2p_state = CLOSED THEN remove_session(s1) ELSE s1

p2s_start_close(s, gracefully) ==
    IF s.p2s_state = CLOSED THEN s
    ELSE IF gracefully THEN p2s_start_write(s, None)
    ELSE LET s1 == [s EXCEPT !.p2s_state = CLOSED,
                             !.c2s_queued_data = << >>,
                             !.p2s_stream = IOStream_close(@, "session"),
                             !.ungraceful = @ \cup {"p2s"}]
         IN  IF s1.c2p_state = CLOSED THEN remove_session(s1) ELSE s1

\* mutant: the upstream is closed at once when the client has closed
on_c2p_close_brutal(s) ==
    LET s1 == [s EXCEPT !.c2p_state = CLOSED]
    IN  IF s1.p2s_state = CLOSED THEN remove_session(s1)
        ELSE p2s_start_close(s1, FALSE)

on_c2p_close(s) ==
    LET s1 == [s EXCEPT !.c2p_state = CLOSED]
    IN  IF s1.p2s_state = CLOSED THEN remove_session(s1)
        ELSE p2s_start_close(s1, TRUE)

\* mutant: the close of the upstream is not passed on to the client
on_p2s_close_no_propagate(s) ==
    LET s1 == [s EXCEPT !.p2s_state = CLOSED]
    IN  IF s1.c2p_state = CLOSED THEN remove_session(s1)
        ELSE s1

\* mutant: the session is removed as soon as the upstream has closed
on_p2s_close_remove(s) ==
    remove_session([s EXCEPT !.p2s_state = CLOSED])

on_p2s_close(s) ==
    LET s1 == [s EXCEPT !.p2s_state = CLOSED]
    IN  IF s1.c2p_state = CLOSED THEN remove_session(s1)
        ELSE c2p_start_close(s1, TRUE)

\* mutant: the data queued during the dial is left in the queue
on_p2s_done_connect_no_drain(s) ==
    IF s.p2s_state # CONNECTING THEN Raise(s, "on_p2s_done_connect:state")
    ELSE LET s1 == p2s_start_read([s EXCEPT !.p2s_state = CONNECTED,
                                            !.rx_at_connect = s.c2p_rx,
                                            !.connected = TRUE])
         IN  IF s1.exc THEN s1
             ELSE IF s1.p2s_writing THEN Raise(s1, "on_p2s_done_connect:writing")
             ELSE s1

\* mutant: the head of the queue is written but stays in the queue
on_p2s_done_connect_no_pop(s) ==
    IF s.p2s_state # CONNECTING THEN Raise(s, "on_p2s_done_connect:state")
    ELSE LET s1 == p2s_start_read([s EXCEPT !.p2s_state = CONNECTED,
                                            !.rx_at_connect = s.c2p_rx,
                                            !.connected = TRUE])
         IN  IF s1.exc THEN s1
             ELSE IF s1.p2s_writing THEN Raise(s1, "on_p2s_done_connect:writing")
             ELSE IF s1.c2s_queued_data # << >>
                  THEN p2s_start_write(s1, Head(s1.c2s_queued_data))
                  ELSE s1

on_p2s_done_connect(s) ==
    IF s.p2s_state # CONNECTING THEN Raise(s, "on_p2s_done_connect:state")
    ELSE LET s1 == p2s_start_read([s EXCEPT !.p2s_state = CONNECTED,
                                            !.rx_at_connect = s.c2p_rx,
                                            !.connected = TRUE])
         IN  IF s1.exc THEN s1
             ELSE IF s1.p2s_writing THEN Raise(s1, "on_p2s_done_connect:writing")
             ELSE IF s1.c2s_queued_data # << >>
                  THEN p2s_start_write([s1 EXCEPT !.c2s_queued_data = Tail(@)],
                                       Head(s1.c2s_queued_data))
                  ELSE s1

\* Session.__init__
Session_init ==
    c2p_start_read(
    [ c2p_reading |-> FALSE, c2p_writing |-> FALSE,
      p2s_writing |-> FALSE, p2s_reading |-> FALSE,
      c2p_stream  |-> IOStream_new("connected"),
      c2p_state   |-> CONNECTED,
      c2s_queued_data |-> << >>,
      s2c_queued_data |-> << >>,
      p2s_stream  |-> IOStream_new("dialing"),
      p2s_state   |-> CONNECTING,
      \* what has happened to the session so far
      c2p_rx  |-> 0,          \* chunks delivered by on_c2p_done_read: 1..c2p_rx
      p2s_rx  |-> 0,          \* chunks delivered by on_p2s_done_read: 1..p2s_rx
      rx_at_connect |-> 0,    \* c2p_rx when on_p2s_done_connect ran
      connected |-> FALSE,    \* on_p2s_done_connect has run
      dropped |-> {},         \* chunks discarded, with the destination's state then
      late_io |-> {},         \* reads and chunk writes started on a CLOSED endpoint
      ungraceful |-> {},      \* endpoints closed by start_close(gracefully=False)
      write_failed |-> {},    \* endpoints whose stream.write has raised
      jumped  |-> {},         \* endpoints where start_write found nothing being
                              \* written and the queue not empty
      sentinels |-> [c2p |-> 0, p2s |-> 0],  \* close requests carried out
      rm      |-> 0,          \* calls of proxy.remove_session(self)
      exc     |-> FALSE,      \* the running callback has raised
      failed  |-> {} ])       \* assertions that have failed

---------------------------------------------------------------------------
(* ProxyServer *)

Member(list, id) == \E i \in 1..Len(list) : list[i] = id

\* mutant: list.pop() instead of list.remove(session)
ListRemove_pop(list, id) == SubSeq(list, 1, Len(list) - 1)

\* list.remove(x): the first occurrence
ListRemove(list, id) ==
    LET i == CHOOSE k \in 1..Len(list) :
                 list[k] = id /\ \A j \in 1..(k-1) : list[j] # id
    IN  SubSeq(list, 1, i-1) \o SubSeq(list, i+1, Len(list))

\* ProxyServer.remove_session can run without raising
remove_session_ok(list, id, s) ==
    /\ s.p2s_state = CLOSED
    /\ s.c2p_state = CLOSED
    /\ Member(list, id)

\* ProxyServer.remove_session
ProxyServer_remove_session(list, id, s) ==
    IF remove_session_ok(list, id, s) THEN ListRemove(list, id) ELSE list

\* ProxyServer.get_connections_count
get_connections_count == Len(SessionsList)

---------------------------------------------------------------------------
(* IOManager, with one ProxyServer added to it.  The manager's calls run   *)
(* on the thread of the event loop.  A callback given to add_callback or   *)
(* add_timeout is kept in checks with the time from which it may run.      *)

Min(a, b) == IF a <= b THEN a ELSE b

\* IOManager.__init__, and the server listening before it is added
IOManager_init ==
    [ listening |-> TRUE,     \* the server accepts connections
      running   |-> FALSE,    \* _running
      stopping  |-> FALSE,    \* _stopping
      stopped   |-> TRUE,     \* _stopped
      loop      |-> FALSE,    \* the IOLoop is running
      checks    |-> {},       \* pending stop_if_no_connections: [due, deadline]
      now       |-> 1,        \* time.time(), in seconds
      \* what has happened so far
      calls     |-> 0,        \* calls of stop
      last      |-> [gracefully |-> FALSE, seconds |-> None, at |-> 0,
                     count |-> 0, sessions |-> 0, loop |-> FALSE],
                              \* the last call of stop and what it found
      by        |-> "none" ]  \* what stopped the loop: "stop" | "check"

\* IOManager.start(thread=False): the flags, then ioloop.start()
IOManager_start(m) ==
    [m EXCEPT !.stopped = FALSE, !.running = TRUE, !.loop = TRUE]

\* stop_procedure
stop_procedure(m, by) ==
    [m EXCEPT !.loop = FALSE, !.running = FALSE, !.stopping = FALSE,
              !.stopped = TRUE, !.by = by]

\* mutant: the deadline is not looked at
stop_if_no_connections_no_deadline(m, deadline, count) ==
    IF count = 0 THEN stop_procedure(m, "check")
    ELSE LET wait_time == IF deadline = None THEN m.now + 1
                          ELSE Min(m.now + 1, deadline)
         IN  [m EXCEPT !.checks = @ \cup {[due |-> wait_time, deadline |-> deadline]}]

\* stop_if_no_connections(deadline); count is get_connections_count()
stop_if_no_connections(m, deadline, count) ==
    IF count = 0 \/ (deadline # None /\ deadline <= m.now)
    THEN stop_procedure(m, "check")
    ELSE LET wait_time == IF deadline = None THEN m.now + 1
                          ELSE Min(m.now + 1, deadline)
         IN  [m EXCEPT !.checks = @ \cup {[due |-> wait_time, deadline |-> deadline]}]

\* mutant: a graceful stop schedules a check even when no session is live
IOManager_stop_no_count(m, gracefully, seconds, count, created) ==
    LET m1 == [m EXCEPT !.stopping = TRUE, !.listening = FALSE,
                        !.calls = @ + 1,
                        !.last = [gracefully |-> gracefully, seconds |-> seconds,
                                  at |-> m.now, count |-> count,
                                  sessions |-> created, loop |-> m.loop]]
    IN  IF ~gracefully THEN stop_procedure(m1, "stop")
        ELSE LET gracefully_timeout == IF seconds = None THEN None
                                       ELSE m.now + seconds
             IN  [m1 EXCEPT !.checks = @ \cup {[due |-> m.now,
                                                deadline |-> gracefully_timeout]}]

\* IOManager.stop(gracefully): gracefully is False (seconds = None), True
\* (seconds = None) or a number of seconds; count is get_connections_count()
\* and created the number of sessions constructed so far
IOManager_stop(m, gracefully, seconds, count, created) ==
    LET m1 == [m EXCEPT !.stopping = TRUE, !.listening = FALSE,
                        !.calls = @ + 1,
                        !.last = [gracefully |-> gracefully, seconds |-> seconds,
                                  at |-> m.now, count |-> count,
                                  sessions |-> created, loop |-> m.loop]]
    IN  IF ~gracefully \/ count = 0 THEN stop_procedure(m1, "stop")
        ELSE LET gracefully_timeout == IF seconds = None THEN None
                                       ELSE m.now + seconds
             IN  [m1 EXCEPT !.checks = @ \cup {[due |-> m.now,
                                                deadline |-> gracefully_timeout]}]

---------------------------------------------------------------------------
(* The event loop runs one callback of session id to its end: s2 is the   *)
(* session after the callback's code, stream names the IOStream whose     *)
(* callback it was (an exception out of a callback closes that stream);    *)
(* an exception out of a call that is no stream callback closes nothing.   *)
RunCallback(id, s2, stream) ==
    LET s      == sessions[id]
        called == s2.rm > s.rm
        s3     == IF called /\ ~remove_session_ok(SessionsList, id, s2)
                  THEN Raise(s2, "ProxyServer.remove_session") ELSE s2
        s4     == IF ~s3.exc THEN s3
                  ELSE IF stream = "c2p"
                       THEN [s3 EXCEPT !.exc = FALSE,
                                       !.c2p_stream = IOStream_close(@, "error")]
                       ELSE IF stream = "p2s"
                       THEN [s3 EXCEPT !.exc = FALSE,
                                       !.p2s_stream = IOStream_close(@, "error")]
                       ELSE [s3 EXCEPT !.exc = FALSE]
    IN  /\ mgr.loop
        /\ mgr' = mgr
        /\ sessions' = [sessions EXCEPT ![id] = s4]
        /\ SessionsList' = IF called
                           THEN ProxyServer_remove_session(SessionsList, id, s2)
                           ELSE SessionsList

---------------------------------------------------------------------------
(* Actions *)

\* one client connects: the sessions of a listener share nothing but
\* SessionsList, so what a session does is checked on one session
Init == /\ sessions = << >>
        /\ SessionsList = << >>
        /\ peers = [connections |-> 1, echo |-> FALSE,
                    client |-> MaxClientChunks, server |-> MaxServerChunks]
        /\ mgr = IOManager_start(IOManager_init)

\* several clients connect, and one chunk travels in each direction: enough
\* for a session to close with a write outstanding and a close request queued
InitListener ==
        /\ sessions = << >>
        /\ SessionsList = << >>
        /\ peers = [connections |-> MaxSessions, echo |-> FALSE,
                    client |-> 1, server |-> 1]
        /\ mgr = IOManager_start(IOManager_init)

\* the echo scenario: a client connects, sends one chunk and closes; the
\* upstream accepts the dial, sends back each chunk once it has received it,
\* and closes when it has sent the chunk back
InitEcho ==
        /\ sessions = << >>
        /\ SessionsList = << >>
        /\ peers = [connections |-> 1, echo |-> TRUE, client |-> 1, server |-> 1]
        /\ mgr = IOManager_start(IOManager_init)

\* a started manager whose server accepts a client; the session carries no
\* data: it stays open until the client closes, the upstream closes or the
\* dial fails
InitManager ==
        /\ sessions = << >>
        /\ SessionsList = << >>
        /\ peers = [connections |-> 1, echo |-> FALSE, client |-> 0, server |-> 0]
        /\ mgr = IOManager_start(IOManager_init)

\* ProxyServer.handle_stream: a client connection is accepted
handle_stream ==
    /\ mgr.loop /\ mgr.listening
    /\ mgr' = mgr
    /\ peers.connections > 0
    /\ peers' = [peers EXCEPT !.connections = @ - 1]
    /\ sessions' = Append(sessions, Session_init)
    /\ SessionsList' = Append(SessionsList, Len(sessions) + 1)

\* the client stream delivers the next chunk to on_c2p_done_read
C2PRead(id) ==
    LET s == sessions[id] IN
    /\ s.c2p_stream.rd /\ ~s.c2p_stream.fired
    /\ peers.client > 0
    /\ peers' = [peers EXCEPT !.client = @ - 1]
    /\ RunCallback(id, on_c2p_done_read([s EXCEPT !.c2p_rx = @ + 1], s.c2p_rx + 1),
                   "c2p")

\* the upstream stream delivers the next chunk to on_p2s_done_read
P2SRead(id) ==
    LET s == sessions[id] IN
    /\ s.p2s_stream.rd /\ ~s.p2s_stream.fired
    /\ peers.server > 0
    /\ peers.echo => s.p2s_stream.taken > s.p2s_rx
    /\ peers' = [peers EXCEPT !.server = @ - 1]
    /\ RunCallback(id, on_p2s_done_read([s EXCEPT !.p2s_rx = @ + 1], s.p2s_rx + 1),
                   "p2s")

\* the socket has taken the buffered write: the write callback is scheduled
C2PWritten(id) ==
    LET s == sessions[id] IN
    /\ mgr.loop
    /\ s.c2p_stream.open /\ s.c2p_stream.wr = "buffered"
    /\ sessions' = [sessions EXCEPT ![id].c2p_stream.wr = "callback",
                                    ![id].c2p_stream.taken = @ + 1]
    /\ UNCHANGED <<SessionsList, peers, mgr>>

P2SWritten(id) ==
    LET s == sessions[id] IN
    /\ mgr.loop
    /\ s.p2s_stream.open /\ s.p2s_stream.wr = "buffered"
    /\ sessions' = [sessions EXCEPT ![id].p2s_stream.wr = "callback",
                                    ![id].p2s_stream.taken = @ + 1]
    /\ UNCHANGED <<SessionsList, peers, mgr>>

C2PDoneWrite(id) ==
    LET s == sessions[id] IN
    /\ s.c2p_stream.wr = "callback"
    /\ RunCallback(id, on_c2p_done_write([s EXCEPT !.c2p_stream.wr = "idle"]), "c2p")
    /\ UNCHANGED peers

P2SDoneWrite(id) ==
    LET s == sessions[id] IN
    /\ s.p2s_stream.wr = "callback"
    /\ RunCallback(id, on_p2s_done_write([s EXCEPT !.p2s_stream.wr = "idle"]), "p2s")
    /\ UNCHANGED peers

\* the dial succeeds: the connect callback is scheduled
P2SDialed(id) ==
    LET s == sessions[id] IN
    /\ mgr.loop
    /\ s.p2s_stream.open /\ s.p2s_stream.dial = "dialing"
    /\ sessions' = [sessions EXCEPT ![id].p2s_stream.dial = "callback"]
    /\ UNCHANGED <<SessionsList, peers, mgr>>

P2SDoneConnect(id) ==
    LET s == sessions[id] IN
    /\ s.p2s_stream.dial = "callback"
    /\ RunCallback(id, on_p2s_done_connect([s EXCEPT !.p2s_stream.dial = "connected"]),
                   "p2s")
    /\ UNCHANGED peers

\* the client closes (or resets) its connection; the client of the echo
\* scenario closes after its chunk
C2PPeerClose(id) ==
    LET s == sessions[id] IN
    /\ mgr.loop
    /\ s.c2p_stream.open
    /\ peers.echo => s.c2p_rx >= 1
    /\ sessions' = [sessions EXCEPT ![id].c2p_stream = IOStream_close(@, "peer")]
    /\ UNCHANGED <<SessionsList, peers, mgr>>

\* the upstream closes its connection, or the dial fails; the echo upstream
\* closes after the chunk it sent back
P2SPeerClose(id) ==
    LET s == sessions[id] IN
    /\ mgr.loop
    /\ s.p2s_stream.open
    /\ peers.echo => s.p2s_rx >= 1
    /\ sessions' = [sessions EXCEPT ![id].p2s_stream = IOStream_close(@, "peer")]
    /\ UNCHANGED <<SessionsList, peers, mgr>>

C2PClose(id) ==
    LET s == sessions[id] IN
    /\ IOStream_close_callback_ready(s.c2p_stream)
    /\ RunCallback(id, on_c2p_close([s EXCEPT !.c2p_stream.fired = TRUE]), "c2p")
    /\ UNCHANGED peers

P2SClose(id) ==
    LET s == sessions[id] IN
    /\ IOStream_close_callback_ready(s.p2s_stream)
    /\ RunCallback(id, on_p2s_close([s EXCEPT !.p2s_stream.fired = TRUE]), "p2s")
    /\ UNCHANGED peers

\* IOManager.stop(gracefully) is called
ManagerStop ==
    \E gracefully \in BOOLEAN, seconds \in 0..MaxGrace :
        /\ mgr.calls < MaxStops
        /\ ~gracefully => seconds = None
        /\ mgr.now + seconds <= MaxTime
        /\ mgr' = IOManager_stop(mgr, gracefully, seconds,
                                 get_connections_count, Len(sessions))
        /\ UNCHANGED <<sessions, SessionsList, peers>>

\* the event loop runs a pending stop_if_no_connections that is due
ManagerCheck ==
    \E c \in mgr.checks :
        /\ mgr.loop
        /\ c.due <= mgr.now
        /\ mgr' = stop_if_no_connections([mgr EXCEPT !.checks = @ \ {c}],
                                         c.deadline, get_connections_count)
        /\ UNCHANGED <<sessions, SessionsList, peers>>

\* a second passes
Tick ==
    /\ mgr.now < MaxTime
    /\ mgr' = [mgr EXCEPT !.now = @ + 1]
    /\ UNCHANGED <<sessions, SessionsList, peers>>

\* c2p_start_close(gracefully=False) is called on a session whose C2P is not
\* CLOSED, from the loop thread and not from a callback of the session's streams
C2PStartCloseUngraceful(id) ==
    LET s == sessions[id] IN
    /\ s.c2p_state # CLOSED
    /\ RunCallback(id, c2p_start_close(s, FALSE), "none")
    /\ UNCHANGED peers

\* p2s_start_close(gracefully=False), likewise
P2SStartCloseUngraceful(id) ==
    LET s == sessions[id] IN
    /\ s.p2s_state # CLOSED
    /\ RunCallback(id, p2s_start_close(s, FALSE), "none")
    /\ UNCHANGED peers

Next ==
    \/ handle_stream
    \/ \E id \in 1..Len(sessions) : C2PRead(id)
    \/ \E id \in 1..Len(sessions) : P2SRead(id)
    \/ \E id \in 1..Len(sessions) : C2PWritten(id)
    \/ \E id \in 1..Len(sessions) : P2SWritten(id)
    \/ \E id \in 1..Len(sessions) : C2PDoneWrite(id)
    \/ \E id \in 1..Len(sessions) : P2SDoneWrite(id)
    \/ \E id \in 1..Len(sessions) : P2SDialed(id)
    \/ \E id \in 1..Len(sessions) : P2SDoneConnect(id)
    \/ \E id \in 1..Len(sessions) : C2PPeerClose(id)
    \/ \E id \in 1..Len(sessions) : P2SPeerClose(id)
    \/ \E id \in 1..Len(sessions) : C2PClose(id)
    \/ \E id \in 1..Len(sessions) : P2SClose(id)

Spec == Init /\ [][Next]_vars

SpecListener == InitListener /\ [][Next]_vars

SpecEcho == InitEcho /\ [][Next]_vars

\* one client connects and one chunk travels in each direction
InitUngraceful ==
        /\ sessions = << >>
        /\ SessionsList = << >>
        /\ peers = [connections |-> 1, echo |-> FALSE, client |-> 1, server |-> 1]
        /\ mgr = IOManager_start(IOManager_init)

\* a session either endpoint of which may be closed ungracefully at any time
NextUngraceful ==
    \/ Next
    \/ \E id \in 1..Len(sessions) : C2PStartCloseUngraceful(id)
    \/ \E id \in 1..Len(sessions) : P2SStartCloseUngraceful(id)

SpecUngraceful == InitUngraceful /\ [][NextUngraceful]_vars

\* the steps of Next that a session without data can take, and the manager
NextManager ==
    \/ handle_stream
    \/ \E id \in 1..Len(sessions) : P2SDialed(id)
    \/ \E id \in 1..Len(sessions) : P2SDoneConnect(id)
    \/ \E id \in 1..Len(sessions) : C2PPeerClose(id)
    \/ \E id \in 1..Len(sessions) : P2SPeerClose(id)
    \/ \E id \in 1..Len(sessions) : C2PClose(id)
    \/ \E id \in 1..Len(sessions) : P2SClose(id)
    \/ ManagerStop
    \/ ManagerCheck
    \/ Tick

SpecManager == InitManager /\ [][NextManager]_vars

\* time passes, and the running event loop runs the callbacks that are due
FairSpecManager ==
    /\ InitManager /\ [][NextManager]_vars
    /\ WF_vars(Tick)
    /\ WF_vars(ManagerCheck)

\* the event loop runs every callback it has scheduled, and a socket that
\* stays open takes the data written to it
Fairness ==
    /\ WF_vars(\E id \in 1..Len(sessions) : C2PWritten(id))
    /\ WF_vars(\E id \in 1..Len(sessions) : P2SWritten(id))
    /\ WF_vars(\E id \in 1..Len(sessions) : C2PDoneWrite(id))
    /\ WF_vars(\E id \in 1..Len(sessions) : P2SDoneWrite(id))
    /\ WF_vars(\E id \in 1..Len(sessions) : P2SDoneConnect(id))
    /\ WF_vars(\E id \in 1..Len(sessions) : C2PClose(id))
    /\ WF_vars(\E id \in 1..Len(sessions) : P2SClose(id))

FairSpec == Init /\ [][Next]_vars /\ Fairness

---------------------------------------------------------------------------
(* Properties *)

Ids == 1..Len(sessions)

\* the chunks 1..n in order of arrival
Arrived(n) == [k \in 1..n |-> k]

IsPrefix(a, b) == Len(a) <= Len(b) /\ \A k \in 1..Len(a) : a[k] = b[k]

\* C1: whatever the order of the callbacks, proxy.remove_session is called at
\* most once for a session
C1_RemovedAtMostOnce == \A i \in Ids : sessions[i].rm <= 1

\* a session whose two close callbacks have run and that has been removed
C1_Witness ==
    \E i \in Ids : /\ sessions[i].rm = 1
                    /\ sessions[i].c2p_stream.fired
                    /\ sessions[i].p2s_stream.fired
                    /\ ~Member(SessionsList, i)

\* C2: in each direction the chunks handed to the destination stream's write
\* are a prefix of the chunks the source stream's read callback delivered, in
\* the same order
C2_WrittenIsPrefixOfRead ==
    \A i \in Ids :
        /\ IsPrefix(sessions[i].p2s_stream.tx, Arrived(sessions[i].c2p_rx))
        /\ IsPrefix(sessions[i].c2p_stream.tx, Arrived(sessions[i].p2s_rx))

\* chunks queued during the dial and chunks queued behind a write have all
\* been written, in both directions
C2_Witness ==
    \E i \in Ids : /\ sessions[i].rx_at_connect >= 2
                    /\ Len(sessions[i].p2s_stream.tx) = MaxClientChunks
                    /\ Len(sessions[i].c2p_stream.tx) >= 3

\* the session of Spec and FairSpec, once the client has connected
Accepted == Len(sessions) >= 1
The == sessions[1]

\* position of chunk c in the sequence tx, 0 if it is not there
Pos(tx, c) == IF \E k \in 1..Len(tx) : tx[k] = c
              THEN CHOOSE k \in 1..Len(tx) : tx[k] = c ELSE 0

\* the chunks received before the connect completion are written in arrival
\* order, and all of them before any chunk received after it
C3_QueuedFirst ==
    \A i \in Ids :
        LET s  == sessions[i]
            tx == s.p2s_stream.tx
            n  == s.rx_at_connect
        IN  s.connected =>
            /\ \A a, b \in 1..n :
                   (a < b /\ Pos(tx, b) > 0) => (0 < Pos(tx, a) /\ Pos(tx, a) < Pos(tx, b))
            /\ \A c \in (n+1)..s.c2p_rx :
                   Pos(tx, c) > 0 => \A a \in 1..n : 0 < Pos(tx, a) /\ Pos(tx, a) < Pos(tx, c)

ClosedByProxy(st) == st.closer \in {"session", "error"}

\* C4: when a peer has closed after the session read M chunks from it, all M
\* chunks are written to the other endpoint before the proxy closes that
\* endpoint's stream (client closes first, and upstream closes first)
C4_FlushedBeforeClose ==
    \A i \in Ids :
        LET s == sessions[i]
        IN  /\ ClosedByProxy(s.p2s_stream) => s.p2s_stream.tx = Arrived(s.c2p_rx)
            /\ ClosedByProxy(s.c2p_stream) => s.c2p_stream.tx = Arrived(s.p2s_rx)

\* the chunks of a queue (the close request left out), as a set
Chunks(q) == {q[k] : k \in 1..Len(q)} \ {None}

\* the chunks discarded on their way to endpoint dst
DroppedTo(s, dst) == {d.chunk : d \in {e \in s.dropped : e.dst = dst}}

\* every chunk read is written, queued or discarded, and only one of these
Conserved(rx, tx, q, dr) ==
    /\ 1..rx = Chunks(tx) \cup Chunks(q) \cup dr
    /\ Chunks(tx) \cap Chunks(q) = {}
    /\ Chunks(tx) \cap dr = {}
    /\ Chunks(q) \cap dr = {}

\* C5 as stated: a chunk is discarded only while the destination endpoint's
\* conn_state is CLOSED
C5_DropOnlyWhenClosed ==
    \A i \in Ids : \A d \in sessions[i].dropped : d.state = CLOSED

\* C5 amended: a chunk is discarded only while the destination's conn_state
\* is CLOSED or the destination's stream is already closed; every other chunk
\* read is written or kept in the destination's queue
C5_DropOnlyWhenClosedOrStreamClosed ==
    \A i \in Ids :
        LET s == sessions[i]
        IN  /\ \A d \in s.dropped : d.state = CLOSED \/ ~d.open
            /\ Conserved(s.c2p_rx, s.p2s_stream.tx, s.c2s_queued_data,
                         DroppedTo(s, "p2s"))
            /\ Conserved(s.p2s_rx, s.c2p_stream.tx, s.s2c_queued_data,
                         DroppedTo(s, "c2p"))

\* one chunk was discarded for a CLOSED destination, another because the
\* write found the stream closed while the destination was still CONNECTED
C5_Witness ==
    \E i \in Ids :
        /\ \E d \in sessions[i].dropped : d.state = CLOSED
        /\ \E d \in sessions[i].dropped : d.state = CONNECTED /\ ~d.open
        /\ sessions[i].failed = {}

\* the dial of session s has failed and on_p2s_close has run
DialFailed(s) == s.p2s_stream.dial = "failed" /\ s.p2s_stream.fired

\* after a failed dial: P2S is CLOSED and was never CONNECTED, nothing was
\* written to the upstream, and the client stream is closed
C6_AfterDialFailure ==
    \A i \in Ids :
        LET s == sessions[i]
        IN  DialFailed(s) =>
              /\ s.p2s_state = CLOSED
              /\ ~s.connected
              /\ s.p2s_stream.tx = << >>
              /\ s.c2p_state = CLOSED
              /\ ~s.c2p_stream.open
              /\ s.c2p_stream.closer \in {"session", "peer"}

\* on_p2s_close after a failed dial closes a client stream that is still open
C6_ProxyClosesClient ==
    \A i \in Ids :
        ( /\ sessions[i].p2s_stream.dial = "failed"
          /\ ~sessions[i].p2s_stream.fired
          /\ sessions'[i].p2s_stream.fired
          /\ sessions[i].c2p_stream.open )
        => sessions'[i].c2p_stream.closer = "session"

\* C6: when the upstream dial fails, P2S becomes CLOSED without ever being
\* CONNECTED, no chunk is ever written to the upstream, the proxy closes the
\* client stream, and the session is eventually removed from the listener,
\* however many client chunks were queued
C6_DialFailure ==
    /\ []C6_AfterDialFailure
    /\ [][C6_ProxyClosesClient]_vars
    /\ (Accepted /\ The.p2s_stream.dial = "failed")
          ~> (Accepted /\ The.rm = 1 /\ ~Member(SessionsList, 1))

\* the dial failed with two client chunks queued; the proxy closed the client
\* stream and the session has been removed
C6_Witness ==
    \E i \in Ids : /\ DialFailed(sessions[i])
                    /\ sessions[i].c2p_rx >= 2
                    /\ Len(sessions[i].c2s_queued_data) >= 2
                    /\ sessions[i].c2p_stream.closer = "session"
                    /\ sessions[i].rm = 1
                    /\ ~Member(SessionsList, i)

\* both close callbacks of session s have run
BothClosed(s) == s.c2p_stream.fired /\ s.p2s_stream.fired

\* the sessions ever removed
Removed == {i \in Ids : sessions[i].rm >= 1}

\* no session whose two close callbacks have run is in the list, and the
\* live-session count is the sessions accepted less the sessions removed
C7_ListIsLiveSessions ==
    /\ \A i \in Ids : BothClosed(sessions[i]) <=> ~Member(SessionsList, i)
    /\ get_connections_count = Len(sessions) - Cardinality(Removed)

\* the second close callback of a session takes exactly that session out of
\* the list: the count goes down by one
C7_RemovalStep ==
    \A i \in Ids :
        (~BothClosed(sessions[i]) /\ BothClosed(sessions'[i]))
        => /\ Len(SessionsList') = Len(SessionsList) - 1
           /\ Member(SessionsList, i) /\ ~Member(SessionsList', i)
           /\ \A j \in Ids \ {i} : Member(SessionsList, j) <=> Member(SessionsList', j)

\* C7: once both close callbacks of a session have run the session is out of
\* the listener's list and the live-session count is one lower than before
C7_RemovedWhenBothClosed ==
    /\ []C7_ListIsLiveSessions
    /\ [][C7_RemovalStep]_vars

\* of two live sessions the one accepted first has been removed
C7_Witness ==
    /\ Len(sessions) = 2
    /\ BothClosed(sessions[1])
    /\ SessionsList = <<2>>

\* C8: at most one write is in flight on each endpoint: write is never called
\* on a stream whose previous write has not completed or failed
C8_OneWriteInFlight ==
    \A i \in Ids : /\ ~sessions[i].c2p_stream.overlap
                    /\ ~sessions[i].p2s_stream.overlap

\* on both endpoints a write is outstanding with items queued behind it,
\* after earlier writes have completed
C8_Witness ==
    \E i \in Ids :
        /\ sessions[i].c2p_stream.wr = "buffered"
        /\ Len(sessions[i].c2p_stream.tx) >= 2
        /\ sessions[i].s2c_queued_data # << >>
        /\ sessions[i].p2s_stream.wr = "buffered"
        /\ Len(sessions[i].p2s_stream.tx) >= 2
        /\ sessions[i].c2s_queued_data # << >>

\* C9: once an endpoint's conn_state is CLOSED no read and no write of a
\* chunk is started on its stream
C9_NoIoOnClosedEndpoint == \A i \in Ids : sessions[i].late_io = {}

\* the client endpoint is CLOSED with chunks still queued for it, and a chunk
\* read from the upstream afterwards was discarded
C9_Witness ==
    \E i \in Ids :
        /\ sessions[i].c2p_state = CLOSED
        /\ Chunks(sessions[i].s2c_queued_data) # {}
        /\ \E d \in sessions[i].dropped : d.dst = "c2p" /\ d.state = CLOSED

\* the close requests of a queue
Sentinels(q) == Cardinality({k \in 1..Len(q) : q[k] = None})

\* at most one close request per endpoint, and nothing queued behind it
C10_SentinelIsLast ==
    \A i \in Ids :
        LET s == sessions[i]
        IN  /\ Sentinels(s.s2c_queued_data) + s.sentinels.c2p <= 1
            /\ Sentinels(s.c2s_queued_data) + s.sentinels.p2s <= 1
            /\ \A k \in 1..Len(s.s2c_queued_data) :
                   s.s2c_queued_data[k] = None => k = Len(s.s2c_queued_data)
            /\ \A k \in 1..Len(s.c2s_queued_data) :
                   s.c2s_queued_data[k] = None => k = Len(s.c2s_queued_data)

\* once the close request of an endpoint has been carried out nothing is
\* written to the endpoint and nothing is queued for it
C10_NothingAfterSentinel ==
    \A i \in Ids :
        LET s == sessions[i]
            n == sessions'[i]
        IN  /\ s.sentinels.c2p >= 1 =>
                  /\ n.c2p_stream.tx = s.c2p_stream.tx
                  /\ n.s2c_queued_data = s.s2c_queued_data
            /\ s.sentinels.p2s >= 1 =>
                  /\ n.p2s_stream.tx = s.p2s_stream.tx
                  /\ n.c2s_queued_data = s.c2s_queued_data

\* C10: for each endpoint at most one close-sentinel is ever enqueued, no
\* item is appended to the queue after it, and no chunk is written to the
\* endpoint after the sentinel has been processed
C10_CloseSentinel ==
    /\ []C10_SentinelIsLast
    /\ [][C10_NothingAfterSentinel]_vars

\* the close request of the upstream endpoint was queued behind two chunks
\* during the dial and carried out after them; the one of the client endpoint
\* waits behind a chunk
C10_Witness ==
    \E i \in Ids :
        /\ sessions[i].rx_at_connect >= 2
        /\ sessions[i].sentinels.p2s = 1
        /\ Len(sessions[i].p2s_stream.tx) >= 2
        /\ sessions[i].p2s_stream.closer = "session"

\* the close request of the client endpoint waits in the queue behind a chunk
C10_WitnessQueued ==
    \E i \in Ids :
        /\ Len(sessions[i].s2c_queued_data) >= 2
        /\ sessions[i].s2c_queued_data[Len(sessions[i].s2c_queued_data)] = None

---------------------------------------------------------------------------
\* the assertions of the read path: the entry assertion of each start_read
\* and the first assertion of each read-completion callback
ReadAssertions ==
    {"c2p_start_read", "p2s_start_read", "on_c2p_done_read", "on_p2s_done_read"}

\* C11: each endpoint's continuous read is started at most once: c2p_start_read
\* and p2s_start_read are entered only with the reading flag false, and every
\* read-completion callback finds the reading flag of its endpoint true
C11_OneReadPerEndpoint ==
    \A i \in Ids :
        /\ sessions[i].failed \cap ReadAssertions = {}
        /\ sessions[i].c2p_stream.rd => sessions[i].c2p_reading
        /\ sessions[i].p2s_stream.rd => sessions[i].p2s_reading

\* both reads have been started and each has delivered chunks
C11_Witness ==
    \E i \in Ids : /\ sessions[i].c2p_stream.rd /\ sessions[i].p2s_stream.rd
                    /\ sessions[i].c2p_rx >= 2
                    /\ sessions[i].p2s_rx >= 2

---------------------------------------------------------------------------
\* the echo scenario is over for session i: both close callbacks have run
EchoOver(i) == sessions[i].c2p_stream.fired /\ sessions[i].p2s_stream.fired

\* the upstream has received the chunk followed by the close, and the session
\* has been removed leaving no session in the list
EchoUpstreamServed(i) ==
    /\ sessions[i].p2s_stream.tx = <<1>>
    /\ sessions[i].p2s_stream.taken = 1
    /\ sessions[i].rm = 1
    /\ get_connections_count = 0

\* C12 as claimed: in the echo scenario, whatever the order of the client's
\* close callback and the upstream's reply, the chunk sent back is written to
\* the client stream, the upstream has received the chunk followed by the
\* close, and the session is removed leaving the count 0
C12_EchoWrittenToClient ==
    \A i \in Ids :
        EchoOver(i) => /\ sessions[i].c2p_stream.tx = <<1>>
                       /\ EchoUpstreamServed(i)

\* C12 as amended: the upstream has received the chunk followed by the close
\* and the session is removed leaving the count 0 in every interleaving; the
\* chunk sent back is written to the client stream exactly when the proxy
\* reads it while C2P is CONNECTED and the client stream is open, and is
\* discarded otherwise
C12_EchoUnlessClientClosed ==
    \A i \in Ids :
        LET s == sessions[i] IN
        /\ EchoOver(i) => EchoUpstreamServed(i)
        /\ s.c2p_stream.tx \in {<< >>, <<1>>}
        /\ s.p2s_rx = 1 =>
              \/ s.c2p_stream.tx = <<1>> /\ DroppedTo(s, "c2p") = {}
              \/ /\ s.c2p_stream.tx = << >>
                 /\ \E d \in s.dropped :
                       /\ d.dst = "c2p" /\ d.chunk = 1
                       /\ d.state = CLOSED \/ ~d.open

\* the scenario has ended with the chunk sent back read by the proxy after
\* the client's close callback, and so not written to the client
C12_Witness ==
    \E i \in Ids :
        /\ EchoOver(i) /\ EchoUpstreamServed(i)
        /\ sessions[i].p2s_rx = 1
        /\ sessions[i].c2p_stream.tx = << >>
        /\ \E d \in sessions[i].dropped : d.dst = "c2p" /\ d.state = CLOSED

---------------------------------------------------------------------------
\* stop(gracefully=T), T a positive number of seconds, has been called once,
\* on the running loop and with a live session, and stop was not called again
TimedStop ==
    /\ mgr.calls = 1
    /\ mgr.last.gracefully /\ mgr.last.seconds # None
    /\ mgr.last.count > 0
    /\ mgr.last.loop

\* call time + T
Deadline == mgr.last.at + mgr.last.seconds

\* from the call on the server does not listen and no session is added; the
\* loop runs with one check pending, due no later than the deadline, and
\* once stopped it was stopped by a check that saw no session or the deadline
C13_StoppedNoEarlier ==
    TimedStop =>
        /\ ~mgr.listening
        /\ Len(sessions) = mgr.last.sessions
        /\ mgr.loop =>
              /\ Cardinality(mgr.checks) = 1
              /\ \A c \in mgr.checks : c.deadline = Deadline /\ c.due <= Deadline
        /\ ~mgr.loop =>
              /\ mgr.by = "check"
              /\ get_connections_count = 0 \/ mgr.now >= Deadline

\* a check stops the loop if and only if it sees no session or the deadline
C13_CheckStep ==
    (TimedStop /\ mgr'.calls = mgr.calls /\ mgr'.checks # mgr.checks) =>
        (~mgr'.loop <=> (get_connections_count = 0 \/ mgr.now >= Deadline))

\* C13: after IOManager.stop(gracefully=T), T > 0 seconds, with a live
\* session: the servers stop listening in that call and no session is added
\* afterwards; the loop is not stopped while the count is above 0 and the
\* deadline (call time + T) has not been reached; the first check that sees
\* the count at 0 or the deadline reached stops the loop, and the loop is
\* stopped in the end, at the deadline even if a session is still open
C13_TimedGracefulStop ==
    /\ []C13_StoppedNoEarlier
    /\ [][C13_CheckStep]_vars
    /\ (TimedStop ~> ~mgr.loop)

\* the loop was stopped at the deadline with the session still open
C13_Witness ==
    /\ TimedStop
    /\ ~mgr.loop /\ mgr.by = "check"
    /\ get_connections_count > 0
    /\ mgr.now >= Deadline

---------------------------------------------------------------------------
\* the assertions of the write-completion and connect-completion callbacks
CompletionAssertions ==
    {"on_c2p_done_write", "on_p2s_done_write",
     "on_p2s_done_connect:state", "on_p2s_done_connect:writing"}

\* C14: the assertions of the completion callbacks never fail: a scheduled
\* write callback finds the writing flag of its endpoint true, and the
\* scheduled connect callback finds P2S CONNECTING with p2s_writing false
C14_CompletionAssertionsHold ==
    \A i \in Ids :
        LET s == sessions[i] IN
        /\ s.failed \cap CompletionAssertions = {}
        /\ s.c2p_stream.wr = "callback" => s.c2p_writing
        /\ s.p2s_stream.wr = "callback" => s.p2s_writing
        /\ s.p2s_stream.dial = "callback" =>
               s.p2s_state = CONNECTING /\ ~s.p2s_writing

\* the connect callback and write callbacks of both endpoints have run, each
\* write callback having started the next queued write
C14_Witness ==
    \E i \in Ids : /\ sessions[i].connected
                    /\ sessions[i].p2s_stream.taken >= 2
                    /\ sessions[i].c2p_stream.taken >= 2
                    /\ sessions[i].p2s_stream.wr = "idle"
                    /\ ~sessions[i].p2s_writing

---------------------------------------------------------------------------
\* a step in which session i calls proxy.remove_session: both endpoints are
\* CLOSED at the call and the session is in the list, which it then leaves
C15_RemoveStep ==
    \A i \in Ids :
        sessions'[i].rm > sessions[i].rm
        => /\ sessions'[i].c2p_state = CLOSED
           /\ sessions'[i].p2s_state = CLOSED
           /\ Member(SessionsList, i)
           /\ SessionsList' = ListRemove(SessionsList, i)

\* C15: every time a session is removed both its c2p_state and its p2s_state
\* are CLOSED and the session is a member of SessionsList: neither the
\* assertions nor the list removal of ProxyServer.remove_session fail
C15_RemoveSessionNeverFails ==
    /\ [](\A i \in Ids : "ProxyServer.remove_session" \notin sessions[i].failed)
    /\ [][C15_RemoveStep]_vars

\* of two live sessions the one accepted last has been removed
C15_Witness ==
    /\ Len(sessions) = 2
    /\ sessions[2].rm = 1
    /\ SessionsList = <<1>>

---------------------------------------------------------------------------
\* C16, for C2P, where the code asserts it: whenever c2p_start_write is called
\* with C2P CONNECTED and c2p_writing false, s2c_queued_data is empty
C16_C2PQueueEmptyAtStartWrite ==
    \A i \in Ids : "c2p" \notin sessions[i].jumped

\* C16, for P2S: whenever p2s_start_write is called with P2S CONNECTED and
\* p2s_writing false, the call from the connect completion included,
\* c2s_queued_data is empty
C16_P2SQueueEmptyAtStartWrite ==
    \A i \in Ids : "p2s" \notin sessions[i].jumped

---------------------------------------------------------------------------
\* what C17 compares on_p2s_done_connect with: P2S is set CONNECTED, the P2S
\* read is started, and the head of the queue, if there is one, is popped and
\* handed to the low-level write directly
connect_and_write_head(s) ==
    LET s1 == p2s_start_read([s EXCEPT !.p2s_state = CONNECTED,
                                       !.rx_at_connect = s.c2p_rx,
                                       !.connected = TRUE])
    IN  IF s1.c2s_queued_data = << >> THEN s1
        ELSE p2s_io_write([s1 EXCEPT !.c2s_queued_data = Tail(@)],
                          Head(s1.c2s_queued_data))

\* the session as the program holds it, without the record of which
\* start_write calls found a queue
Program(s) == [s EXCEPT !.jumped = {}]

\* the session the connect callback is about to run on
AtConnect(s) == [s EXCEPT !.p2s_stream.dial = "connected"]

\* whatever is queued when the connect callback is due, the callback leaves
\* the session as the direct write of the head does: the head chunk written
\* with p2s_writing true (or P2S CLOSED if the head is the close request),
\* the other items queued in their order
C17_SameAsDirectWrite ==
    \A i \in Ids :
        sessions[i].p2s_stream.dial = "callback" =>
            LET s  == AtConnect(sessions[i])
                q  == s.c2s_queued_data
                s2 == on_p2s_done_connect(s)
            IN  /\ Program(s2) = Program(connect_and_write_head(s))
                /\ q = << >> => s2.p2s_stream.tx = << >> /\ ~s2.p2s_writing
                /\ q # << >> =>
                      /\ s2.c2s_queued_data = Tail(q)
                      /\ Head(q) = None => s2.p2s_state = CLOSED
                      /\ (Head(q) # None /\ s.p2s_stream.open) =>
                             /\ s2.p2s_stream.tx = <<Head(q)>>
                             /\ s2.p2s_stream.wr = "buffered"
                             /\ s2.p2s_writing /\ s2.p2s_state = CONNECTED

\* a step that takes an item out of the P2S queue takes the head, and writes
\* it if it is a chunk and the stream is open
C17_DrainStep ==
    \A i \in Ids :
        LET q == sessions[i].c2s_queued_data IN
        Len(sessions'[i].c2s_queued_data) < Len(q) =>
            /\ sessions'[i].c2s_queued_data = Tail(q)
            /\ (Head(q) # None /\ sessions[i].p2s_stream.open) =>
                   sessions'[i].p2s_stream.tx =
                       Append(sessions[i].p2s_stream.tx, Head(q))

\* C17: for every content of the P2S queue at the connect completion,
\* on_p2s_done_connect leaves the session in the state that setting P2S
\* CONNECTED, starting the P2S read, popping the head and writing it with the
\* low-level write gives; the remaining items stay queued in their order and
\* are drained one for each on_p2s_done_write
C17_ConnectCompletion ==
    /\ []C17_SameAsDirectWrite
    /\ [][C17_DrainStep]_vars

\* the connect callback has run on a queue of two chunks and the close
\* request: the first chunk is being written, the rest is queued
C17_Witness ==
    \E i \in Ids : /\ sessions[i].connected
                    /\ sessions[i].c2s_queued_data = <<2, None>>
                    /\ sessions[i].p2s_stream.tx = <<1>>
                    /\ sessions[i].p2s_writing

---------------------------------------------------------------------------
\* C18: the writing flag of an endpoint is true exactly when a write is in
\* flight on it; in particular, once the low-level write has carried out the
\* close request of an endpoint (handed over by start_write or popped by the
\* write-completion callback), the endpoint is CLOSED and its writing flag is
\* false
C18_WritingFalseAfterSentinel ==
    \A i \in Ids :
        LET s == sessions[i] IN
        /\ s.sentinels.c2p >= 1 => s.c2p_state = CLOSED /\ ~s.c2p_writing
        /\ s.sentinels.p2s >= 1 => s.p2s_state = CLOSED /\ ~s.p2s_writing

---------------------------------------------------------------------------
\* C19: when the low-level write of a chunk fails at once because the stream
\* is already closed, on either endpoint and with or without items still
\* queued for it, the writing flag is cleared and no callback is armed, no
\* assertion fails in any later event, and the session is removed once both
\* close callbacks have run
C19_WriteFailureHandled ==
    \A i \in Ids :
        LET s == sessions[i] IN
        s.write_failed # {} =>
            /\ s.failed = {}
            /\ ("c2p" \in s.write_failed /\ s.c2p_stream.wr = "idle"
                   /\ s.sentinels.c2p = 0) => ~s.c2p_writing
            /\ ("p2s" \in s.write_failed /\ s.p2s_stream.wr = "idle"
                   /\ s.sentinels.p2s = 0) => ~s.p2s_writing
            /\ (s.c2p_stream.fired /\ s.p2s_stream.fired) => s.rm = 1

---------------------------------------------------------------------------
\* an ungraceful start_close on an endpoint that is not CLOSED sets the
\* endpoint CLOSED, empties its queue, closes its stream, and removes the
\* session if the other endpoint is CLOSED
C20_UngracefulStep ==
    \A i \in Ids :
        LET s == sessions[i]
            t == sessions'[i]
        IN  /\ ("c2p" \in t.ungraceful \ s.ungraceful) =>
                  /\ t.c2p_state = CLOSED /\ t.s2c_queued_data = << >>
                  /\ ~t.c2p_stream.open
                  /\ t.rm = s.rm + (IF s.p2s_state = CLOSED THEN 1 ELSE 0)
            /\ ("p2s" \in t.ungraceful \ s.ungraceful) =>
                  /\ t.p2s_state = CLOSED /\ t.c2s_queued_data = << >>
                  /\ ~t.p2s_stream.open
                  /\ t.rm = s.rm + (IF s.c2p_state = CLOSED THEN 1 ELSE 0)

\* a session that was closed ungracefully is removed once: remove_session is
\* called once, when both close callbacks have run it has been called, and
\* ProxyServer.remove_session does not fail
C20_RemovedOnce ==
    \A i \in Ids :
        LET s == sessions[i] IN
        s.ungraceful # {} =>
            /\ s.rm <= 1
            /\ "ProxyServer.remove_session" \notin s.failed
            /\ (s.c2p_stream.fired /\ s.p2s_stream.fired) => s.rm = 1

\* C20: an ungraceful start_close on an endpoint that is not CLOSED sets it
\* CLOSED, empties its write queue, closes its stream and removes the session
\* if the other endpoint is already CLOSED; with the close callback that the
\* close of the stream brings, the session is still removed exactly once
C20_UngracefulClose ==
    /\ [][C20_UngracefulStep]_vars
    /\ []C20_RemovedOnce

---------------------------------------------------------------------------
\* what the program holds of a session: states, flags, queues, the streams
\* with every operation made on them, and the calls of remove_session
Fields(s) ==
    [ c2p_state |-> s.c2p_state, p2s_state |-> s.p2s_state,
      c2p_reading |-> s.c2p_reading, c2p_writing |-> s.c2p_writing,
      p2s_reading |-> s.p2s_reading, p2s_writing |-> s.p2s_writing,
      c2s_queued_data |-> s.c2s_queued_data,
      s2c_queued_data |-> s.s2c_queued_data,
      c2p_stream |-> s.c2p_stream, p2s_stream |-> s.p2s_stream,
      rm |-> s.rm, exc |-> s.exc ]

\* what start_write may be given: a chunk or the close request
Items == 0..(MaxClientChunks + MaxServerChunks)

\* C21: an operation aimed at an endpoint that is CLOSED leaves the session as
\* it is: start_close, graceful or not, does nothing, and start_write of a
\* chunk or of the close request changes no state, no flag and neither queue
\* and makes no operation on a stream
C21_ClosedEndpointNoOp ==
    \A i \in Ids :
        LET s == sessions[i] IN
        /\ s.c2p_state = CLOSED =>
              /\ \A g \in BOOLEAN : Fields(c2p_start_close(s, g)) = Fields(s)
              /\ \A d \in Items : Fields(c2p_start_write(s, d)) = Fields(s)
        /\ s.p2s_state = CLOSED =>
              /\ \A g \in BOOLEAN : Fields(p2s_start_close(s, g)) = Fields(s)
              /\ \A d \in Items : Fields(p2s_start_write(s, d)) = Fields(s)

\* a chunk of the client has been handed to p2s_start_write with P2S CLOSED
\* while C2P still had a write outstanding and a close request queued
C21_Witness ==
    \E i \in Ids :
        LET s == sessions[i] IN
        /\ s.p2s_state = CLOSED /\ s.c2p_state = CONNECTED
        /\ \E d \in s.dropped : d.dst = "p2s" /\ d.state = CLOSED
        /\ s.c2p_writing /\ s.s2c_queued_data # << >>
        /\ s.c2s_queued_data = << >>

---------------------------------------------------------------------------
\* a call of stop with gracefully false, or made when no session is live,
\* stops the loop in that call and schedules no check
C22_ImmediateStopStep ==
    (mgr'.calls > mgr.calls /\ (~mgr'.last.gracefully \/ mgr'.last.count = 0)) =>
        /\ ~mgr'.loop /\ mgr'.by = "stop"
        /\ mgr'.running = FALSE /\ mgr'.stopped = TRUE
        /\ mgr'.checks = mgr.checks

\* stop(gracefully=True) has been called once, on the running loop and with
\* a live session, and stop was not called again
ForeverStop ==
    /\ mgr.calls = 1
    /\ mgr.last.gracefully /\ mgr.last.seconds = None
    /\ mgr.last.count > 0
    /\ mgr.last.loop

\* the loop runs with one check pending that has no deadline, and once
\* stopped it was stopped by a check that saw no session
C22_ForeverNotStoppedEarly ==
    ForeverStop =>
        /\ mgr.loop =>
              /\ Cardinality(mgr.checks) = 1
              /\ \A c \in mgr.checks : c.deadline = None
        /\ ~mgr.loop => mgr.by = "check" /\ get_connections_count = 0

\* a check without deadline stops the loop if and only if it sees no session
C22_ForeverCheckStep ==
    (ForeverStop /\ mgr'.calls = mgr.calls /\ mgr'.checks # mgr.checks) =>
        (~mgr'.loop <=> get_connections_count = 0)

\* the pending check falls due within the modelled time
CheckWithinTime == \A c \in mgr.checks : c.due <= MaxTime

\* C22: IOManager.stop with gracefully false, or with no live session, stops
\* the event loop within the call and schedules no check; with
\* gracefully=True (no deadline) the loop is never stopped while the count is
\* above 0, and the first periodic check that sees the count at 0 stops it
C22_ImmediateOrForever ==
    /\ [][C22_ImmediateStopStep]_vars
    /\ []C22_ForeverNotStoppedEarly
    /\ [][C22_ForeverCheckStep]_vars
    /\ ((ForeverStop /\ get_connections_count = 0 /\ CheckWithinTime) ~> ~mgr.loop)

\* after stop(gracefully=True) the loop ran on for two seconds of checks with
\* the session open, and was stopped by the check after the session had gone
C22_Witness ==
    /\ ForeverStop
    /\ ~mgr.loop /\ mgr.by = "check"
    /\ get_connections_count = 0
    /\ mgr.now >= mgr.last.at + 2

---------------------------------------------------------------------------
\* the dial of the upstream has neither completed nor failed
Dialing(s) == s.p2s_stream.open /\ s.p2s_stream.dial = "dialing"

\* what the client has sent so far: its chunks and, once its connection has
\* closed, the close request
ForUpstream(s) ==
    Arrived(s.c2p_rx) \o (IF s.c2p_state = CLOSED THEN <<None>> ELSE << >>)

\* C23: while the upstream dial neither completes nor fails, P2S stays
\* CONNECTING, every item for the upstream (the chunks and, after the client
\* has closed, the close request) is only appended to the P2S queue, nothing
\* is written upstream, and the session stays in the list of the listener,
\* also after the client connection has closed
C23_DialingOnlyQueues ==
    \A i \in Ids :
        LET s == sessions[i] IN
        Dialing(s) =>
            /\ s.p2s_state = CONNECTING
            /\ s.c2s_queued_data = ForUpstream(s)
            /\ s.p2s_stream.tx = << >> /\ s.p2s_stream.wr = "idle"
            /\ ~s.p2s_writing /\ ~s.p2s_reading
            /\ s.dropped = {}
            /\ s.rm = 0 /\ Member(SessionsList, i)

\* the client sent two chunks and closed while the upstream was being dialled
C23_Witness ==
    \E i \in Ids :
        LET s == sessions[i] IN
        /\ Dialing(s)
        /\ s.c2p_state = CLOSED /\ s.c2p_stream.fired
        /\ s.c2s_queued_data = <<1, 2, None>>
        /\ Member(SessionsList, i)

---------------------------------------------------------------------------
\* C24: between the calls of IOManager.start and IOManager.stop (graceful or
\* not) made on the loop thread, exactly one of _running and _stopped is
\* set, and _stopping is set only while _running is set, that is only while
\* a graceful stop is pending
C24_FlagsConsistent ==
    /\ mgr.running # mgr.stopped
    /\ mgr.stopping => mgr.running

====
